---------------------------- MODULE Spec2Model ----------------------------
(***************************************************************************)
(* Turn orchestration of the voice assistant.                              *)
(*                                                                         *)
(*   RecSpec  AudioRecorder.record_push_to_talk (src/src/audio/recorder.py)*)
(*            at statement granularity: the main thread, the pynput        *)
(*            listener threads running on_press / on_release, and the      *)
(*            sounddevice callback thread running _audio_callback.         *)
(*   Spec     VoiceOrchestrator.run (src/src/orchestrator.py): the turn    *)
(*            state machine and its metrics.                               *)
(***************************************************************************)
EXTENDS Integers, Sequences, FiniteSets

(***************************************************************************)
(* Bounds of the model.                                                    *)
(***************************************************************************)
\* calls of record_push_to_talk on one AudioRecorder
MaxCalls == 2
\* key events delivered by the keyboard in one run
MaxKeys == 3
\* audio blocks delivered by the sound device in one run
MaxChunks == 2
\* frames in one audio block
FramesPerChunk == 2
\* advances of the clock in one run
MaxTicks == 2
\* turns of the run loop in one run
MaxTurns == 2
\* calls of _update_metrics when it is checked on its own
MaxUpdates == 3

(***************************************************************************)
(* Program constants.                                                      *)
(***************************************************************************)
RECORD_MAX_SECONDS == 10

\* seconds the clock advances in one Tick: half the maximum duration
TickSeconds == RECORD_MAX_SECONDS \div 2

Calls == 1..MaxCalls

VARIABLES
    \* ---- AudioRecorder fields (recorder.py 12-17, 29-31)
    is_recording,     \* self.is_recording
    quit_requested,   \* self.quit_requested
    audio_data,       \* self.audio_data: sequence of chunk ids
    start_time,       \* self.start_time: <<>> is None, <<t>> is t
    \* ---- threads of record_push_to_talk
    call,             \* number of the current / last call (0: none yet)
    pc,               \* main thread position in record_push_to_talk
    outcome,          \* how the last call ended
    result,           \* the array the last call returned
    listener,         \* per call: the keyboard.Listener it created
    stream_open,      \* the sd.InputStream is open
    cb,               \* chunk the audio callback is about to append (0: none)
    \* ---- environment
    held,             \* the trigger key is physically down
    now,              \* time.time()
    nkeys,            \* key events delivered so far
    nchunks,          \* audio blocks delivered so far
    \* ---- history of the current call
    opens,            \* opens of the input device
    stop_count,       \* recording_complete.set() calls on this call's event
    appended,         \* chunks _audio_callback appended, in arrival order
    trigger_seen,     \* on_press has started a recording
    tap_handled,      \* this call's on_release has stopped a recording
    quit_first,       \* this call's on_press saw quit before any trigger
    quit_in_rec,      \* on_press saw quit while the stream was open
    \* ---- VoiceOrchestrator fields (orchestrator.py 27-48)
    state,            \* self.state
    should_exit,      \* self.should_exit
    total_turns,      \* self.metrics['total_turns']
    errors,           \* self.metrics['errors']
    avg_stt_time,     \* self.metrics['avg_stt_time'], as <<num, den>>
    avg_agent_time,   \* self.metrics['avg_agent_time']
    avg_tts_time,     \* self.metrics['avg_tts_time']
    avg_total_time,   \* self.metrics['avg_total_time']
    \* ---- the run loop
    opc,              \* position of run() and of the turn it is handling
    mode,             \* mode of the current turn: "voice", "text" or "none"
    audio,            \* what the last capture returned
    user_text,        \* the typed or transcribed text of the current turn
    response,         \* response_text of the current turn
    classification,   \* the dict classify returned, inside
                      \* classify_and_execute_intent
    stt_time,         \* stt_time of the current turn
    agent_time,       \* agent_time of the current turn
    tts_time,         \* tts_time of the current turn
    elapsed,          \* time.time() - turn_start
    \* ---- history of the run
    turns,            \* turns started
    end_reason,       \* why the run loop ended
    cap_cancelled,    \* the capture of line 117 returned None
    stage_failed,     \* a stage of the current turn raised
    errors_before,    \* metrics['errors'] when the current turn started
    turns_completed,  \* turns whose last stage returned
    turns_errored,    \* turns that ended in handle_error
    updates,          \* calls of _update_metrics
    samples_sum,      \* sums of the four times _update_metrics was given
    cleanups,         \* calls of cleanup
    \* ---- history of the current turn
    raw_result,       \* the JSON object the model answered with
    calls,            \* collaborators invoked in this turn, in order
    failure,          \* what raised in this turn ("none": nothing)
    message,          \* the last notice shown to the user in this turn
    total_before,     \* metrics['total_turns'] when the turn started
    trace,            \* the values self.state took since the turn started
    last_sample,      \* the times this turn gave to _update_metrics
    decision,         \* what classify_and_execute_intent decided
    reply,            \* what the user replied when asked for the topic
    task_inputs       \* the inputs the agent task gave to its crew

recVars == <<is_recording, quit_requested, audio_data, start_time, call, pc,
             outcome, result, listener, stream_open, cb, held, now, nkeys,
             nchunks, opens, stop_count, appended, trigger_seen, tap_handled,
             quit_first, quit_in_rec>>

orchVars == <<state, should_exit, total_turns, errors, avg_stt_time,
              avg_agent_time, avg_tts_time, avg_total_time, opc, mode, audio,
              user_text, response, classification, stt_time, agent_time,
              tts_time, elapsed, turns, end_reason, cap_cancelled,
              stage_failed, errors_before, turns_completed, turns_errored,
              updates, samples_sum, cleanups, raw_result, calls, failure,
              message, total_before, trace, last_sample, decision, reply,
              task_inputs>>

vars == <<recVars, orchVars>>

(***************************************************************************)
(* Audio data.  A chunk is the block of frames one callback delivered;     *)
(* np.concatenate joins the chunks of a list in list order.                *)
(***************************************************************************)
Chunk(i) == [k \in 1..FramesPerChunk |-> (i - 1) * FramesPerChunk + k]

RECURSIVE Concatenate(_)
Concatenate(chunks) ==
    IF chunks = <<>> THEN <<>>
    ELSE Chunk(Head(chunks)) \o Concatenate(Tail(chunks))

InCall == pc \notin {"idle", "done"}

\* main thread positions inside the `with sd.InputStream` recording loop
LoopPcs == {"r_rec", "r_quit", "l81", "l83", "l84"}

NoListener == [status |-> "none", hpc |-> "idle"]

HandlersIdle == \A c \in Calls : listener[c].hpc = "idle"

RecInit ==
    /\ is_recording = FALSE
    /\ quit_requested = FALSE
    /\ audio_data = <<>>
    /\ start_time = <<>>
    /\ call = 0
    /\ pc = "idle"
    /\ outcome = "none"
    /\ result = <<>>
    /\ listener = [c \in Calls |-> NoListener]
    /\ stream_open = FALSE
    /\ cb = 0
    /\ held = FALSE
    /\ now = 0
    /\ nkeys = 0
    /\ nchunks = 0
    /\ opens = 0
    /\ stop_count = 0
    /\ appended = <<>>
    /\ trigger_seen = FALSE
    /\ tap_handled = FALSE
    /\ quit_first = FALSE
    /\ quit_in_rec = FALSE

(***************************************************************************)
(* Main thread: record_push_to_talk, one action per statement that reads   *)
(* or writes state shared with the listener and callback threads.          *)
(***************************************************************************)
envVars == <<held, now, nkeys, nchunks>>
fieldVars == <<is_recording, quit_requested, audio_data, start_time>>
histVars == <<opens, stop_count, appended, trigger_seen, tap_handled,
              quit_first, quit_in_rec>>

\* A caller calls record_push_to_talk again.  Both callers of the repository
\* (VoiceOrchestrator.run, test_recorder.main) stop calling after a
\* KeyboardInterrupt.
BeginCall ==
    /\ pc \in {"idle", "done"}
    /\ outcome # "interrupt"
    /\ call < MaxCalls
    /\ call' = call + 1
    /\ pc' = "l29"
    /\ outcome' = "pending"
    /\ result' = <<>>
    /\ opens' = 0
    /\ stop_count' = 0
    /\ appended' = <<>>
    /\ trigger_seen' = FALSE
    /\ tap_handled' = FALSE
    /\ quit_first' = FALSE
    /\ quit_in_rec' = FALSE
    /\ UNCHANGED <<orchVars, fieldVars, listener, stream_open, cb, envVars>>

\* line 29: self.audio_data = []
ResetAudio ==
    /\ pc = "l29"
    /\ audio_data' = <<>>
    /\ pc' = "l30"
    /\ UNCHANGED <<orchVars, is_recording, quit_requested, start_time, call, outcome,
                   result, listener, stream_open, cb, envVars, histVars>>

\* line 30: self.is_recording = False
ResetRecording ==
    /\ pc = "l30"
    /\ is_recording' = FALSE
    /\ trigger_seen' = FALSE
    /\ pc' = "l31"
    /\ UNCHANGED <<orchVars, quit_requested, audio_data, start_time, call, outcome,
                   result, listener, stream_open, cb, envVars, opens,
                   stop_count, appended, tap_handled, quit_first, quit_in_rec>>

\* lines 31-32: self.quit_requested = False; a fresh recording_complete
ResetQuit ==
    /\ pc = "l31"
    /\ quit_requested' = FALSE
    /\ pc' = "l60"
    /\ UNCHANGED <<orchVars, is_recording, audio_data, start_time, call, outcome,
                   result, listener, stream_open, cb, envVars, histVars>>

\* lines 60-61: listener = keyboard.Listener(...); listener.start()
StartListener ==
    /\ pc = "l60"
    /\ listener' = [listener EXCEPT ![call] =
                        [status |-> "running", hpc |-> "idle"]]
    /\ pc' = "w_rec"
    /\ UNCHANGED <<orchVars, fieldVars, call, outcome, result, stream_open, cb,
                   envVars, histVars>>

\* line 64, first operand: while not self.is_recording ...
WaitCheckRecording ==
    /\ pc = "w_rec"
    /\ pc' = IF is_recording THEN "l68" ELSE "w_quit"
    /\ UNCHANGED <<orchVars, fieldVars, call, outcome, result, listener, stream_open,
                   cb, envVars, histVars>>

\* line 64, second operand, and line 65: ... and not self.quit_requested:
\* time.sleep(0.01)
WaitCheckQuit ==
    /\ pc = "w_quit"
    /\ pc' = IF quit_requested THEN "l68" ELSE "w_rec"
    /\ UNCHANGED <<orchVars, fieldVars, call, outcome, result, listener, stream_open,
                   cb, envVars, histVars>>

\* line 68: if self.quit_requested:
CheckQuitBeforeOpen_NoCheck ==
    /\ pc = "l68"
    /\ pc' = "l73"
    /\ UNCHANGED <<orchVars, fieldVars, call, outcome, result, listener, stream_open,
                   cb, envVars, histVars>>

CheckQuitBeforeOpen ==
    /\ pc = "l68"
    /\ pc' = IF quit_requested THEN "l69" ELSE "l73"
    /\ UNCHANGED <<orchVars, fieldVars, call, outcome, result, listener, stream_open,
                   cb, envVars, histVars>>

\* listener.stop(): no further event reaches the callbacks; a callback that
\* is running finishes.
Stopped(l) == [l EXCEPT !.status = "stopped"]

\* lines 69-70: listener.stop(); return None
ReturnQuitBeforeOpen ==
    /\ pc = "l69"
    /\ listener' = [listener EXCEPT ![call] = Stopped(@)]
    /\ outcome' = "cancelled"
    /\ pc' = "done"
    /\ UNCHANGED <<orchVars, fieldVars, call, result, stream_open, cb, envVars,
                   histVars>>

\* lines 73-78: with sd.InputStream(...): the device opens and starts
OpenStream ==
    /\ pc = "l73"
    /\ stream_open' = TRUE
    /\ opens' = opens + 1
    /\ pc' = "r_rec"
    /\ UNCHANGED <<orchVars, fieldVars, call, outcome, result, listener, cb, envVars,
                   stop_count, appended, trigger_seen, tap_handled,
                   quit_first, quit_in_rec>>

\* lines 73-78: sd.InputStream(...) raises (no input device): the exception
\* leaves record_push_to_talk before the with block is entered
OpenStreamFails ==
    /\ pc = "l73"
    /\ outcome' = "error"
    /\ pc' = "done"
    /\ UNCHANGED <<orchVars, fieldVars, call, result, listener, stream_open, cb,
                   envVars, histVars>>

\* line 80, first operand: while self.is_recording ...
RecCheckRecording ==
    /\ pc = "r_rec"
    /\ pc' = IF is_recording THEN "r_quit" ELSE "close"
    /\ UNCHANGED <<orchVars, fieldVars, call, outcome, result, listener, stream_open,
                   cb, envVars, histVars>>

\* line 80, second operand: ... and not self.quit_requested:
RecCheckQuit ==
    /\ pc = "r_quit"
    /\ pc' = IF quit_requested THEN "close" ELSE "l81"
    /\ UNCHANGED <<orchVars, fieldVars, call, outcome, result, listener, stream_open,
                   cb, envVars, histVars>>

\* lines 81-82 and 86: elapsed = time.time() - self.start_time (a TypeError
\* while start_time is None); if elapsed >= RECORD_MAX_SECONDS ...;
\* time.sleep(0.01)
CheckElapsed ==
    /\ pc = "l81"
    /\ IF start_time = <<>>
       THEN /\ pc' = "exc_close"
            /\ outcome' = "error"
       ELSE /\ pc' = IF now - start_time[1] >= RECORD_MAX_SECONDS
                     THEN "l83" ELSE "r_rec"
            /\ UNCHANGED outcome
    /\ UNCHANGED <<orchVars, fieldVars, call, result, listener, stream_open, cb,
                   envVars, histVars>>

\* line 83: self.is_recording = False
TimeoutStop ==
    /\ pc = "l83"
    /\ is_recording' = FALSE
    /\ pc' = "l84"
    /\ UNCHANGED <<orchVars, quit_requested, audio_data, start_time, call, outcome,
                   result, listener, stream_open, cb, envVars, histVars>>

\* lines 84-85: recording_complete.set(); break
TimeoutSignal ==
    /\ pc = "l84"
    /\ stop_count' = stop_count + 1
    /\ pc' = "close"
    /\ UNCHANGED <<orchVars, fieldVars, call, outcome, result, listener, stream_open,
                   cb, envVars, opens, appended, trigger_seen, tap_handled,
                   quit_first, quit_in_rec>>

\* end of the with block (line 86/87): InputStream.__exit__ stops and closes
\* the stream; PortAudio returns once no callback is running
CloseStream ==
    /\ pc = "close"
    /\ cb = 0
    /\ stream_open' = FALSE
    /\ pc' = "l88"
    /\ UNCHANGED <<orchVars, fieldVars, call, outcome, result, listener, cb, envVars,
                   histVars>>

\* an exception leaves the with block: __exit__ closes the stream and the
\* exception leaves record_push_to_talk (line 88 is not reached)
CloseStreamOnException_Leak ==
    /\ pc = "exc_close"
    /\ cb = 0
    /\ pc' = "done"
    /\ UNCHANGED <<orchVars, fieldVars, call, outcome, result, listener, stream_open,
                   cb, envVars, histVars>>

CloseStreamOnException ==
    /\ pc = "exc_close"
    /\ cb = 0
    /\ stream_open' = FALSE
    /\ pc' = "done"
    /\ UNCHANGED <<orchVars, fieldVars, call, outcome, result, listener, cb, envVars,
                   histVars>>

\* line 88: listener.stop()
StopListener ==
    /\ pc = "l88"
    /\ listener' = [listener EXCEPT ![call] = Stopped(@)]
    /\ pc' = "l91"
    /\ UNCHANGED <<orchVars, fieldVars, call, outcome, result, stream_open, cb,
                   envVars, histVars>>

\* lines 91-92: if self.quit_requested: return None
CheckQuitAfter_NoCheck ==
    /\ pc = "l91"
    /\ pc' = "l95"
    /\ UNCHANGED <<orchVars, fieldVars, call, outcome, result, listener, stream_open,
                   cb, envVars, histVars>>

CheckQuitAfter ==
    /\ pc = "l91"
    /\ IF quit_requested
       THEN /\ outcome' = "cancelled"
            /\ pc' = "done"
       ELSE /\ pc' = "l95"
            /\ UNCHANGED outcome
    /\ UNCHANGED <<orchVars, fieldVars, call, result, listener, stream_open, cb,
                   envVars, histVars>>

\* lines 95-102: np.concatenate(self.audio_data) flattened (CHANNELS is 1:
\* no down-mix), or the empty array
BuildResult ==
    /\ pc = "l95"
    /\ result' = IF Len(audio_data) > 0 THEN Concatenate(audio_data)
                 ELSE <<>>
    /\ outcome' = "buffer"
    /\ pc' = "done"
    /\ UNCHANGED <<orchVars, fieldVars, call, listener, stream_open, cb, envVars,
                   histVars>>

\* KeyboardInterrupt raised in the main thread while it sleeps at line 65
InterruptWaiting ==
    /\ pc = "w_rec"
    /\ outcome' = "interrupt"
    /\ pc' = "done"
    /\ UNCHANGED <<orchVars, fieldVars, call, result, listener, stream_open, cb,
                   envVars, histVars>>

\* KeyboardInterrupt raised in the main thread while it sleeps at line 86
InterruptRecording ==
    /\ pc = "r_rec"
    /\ outcome' = "interrupt"
    /\ pc' = "exc_close"
    /\ UNCHANGED <<orchVars, fieldVars, call, result, listener, stream_open, cb,
                   envVars, histVars>>

MainStep ==
    \/ ResetAudio
    \/ ResetRecording
    \/ ResetQuit
    \/ StartListener
    \/ WaitCheckRecording
    \/ WaitCheckQuit
    \/ CheckQuitBeforeOpen
    \/ ReturnQuitBeforeOpen
    \/ OpenStream
    \/ RecCheckRecording
    \/ RecCheckQuit
    \/ CheckElapsed
    \/ TimeoutStop
    \/ TimeoutSignal
    \/ CloseStream
    \/ CloseStreamOnException
    \/ StopListener
    \/ CheckQuitAfter
    \/ BuildResult

(***************************************************************************)
(* Listener threads.  Listener c is the keyboard.Listener that call c      *)
(* created; its callbacks close over self and over call c's                *)
(* recording_complete.  A listener runs its callbacks one after another;   *)
(* hpc is the statement its running callback is at.                        *)
(***************************************************************************)
SetHpc(c, h) == [listener EXCEPT ![c].hpc = h]

\* the callback returns False: pynput stops that listener
ReturnFalse(c) == [listener EXCEPT ![c] = [status |-> "stopped",
                                            hpc |-> "idle"]]

\* first statement of the callback the listener runs for a key event
Entry(k) ==
    CASE k = "quit" -> "p39"
      [] k = "trigger_down" -> "p45"
      [] k = "trigger_up" -> "r54"

\* The keyboard delivers a key event: quit key down, trigger key down (the
\* press, or an auto-repeat while the key stays down), trigger key up.
\* Every running listener starts the callback for it.  Callbacks take
\* microseconds and key events are milliseconds apart: an event arrives when
\* the callbacks for the one before have returned.
KeyEvent(k) ==
    /\ nkeys < MaxKeys
    /\ \A c \in Calls : listener[c].status = "running"
                            => listener[c].hpc = "idle"
    /\ k = "trigger_up" => held
    /\ held' = CASE k = "trigger_down" -> TRUE
                 [] k = "trigger_up" -> FALSE
                 [] OTHER -> held
    /\ nkeys' = nkeys + 1
    /\ listener' = [c \in Calls |->
                        IF listener[c].status = "running"
                        THEN [listener[c] EXCEPT !.hpc = Entry(k)]
                        ELSE listener[c]]
    /\ UNCHANGED <<orchVars, fieldVars, call, pc, outcome, result, stream_open, cb,
                   now, nchunks, histVars>>

\* on_press line 39: self.quit_requested = True
PressQuitSet(c) ==
    /\ listener[c].hpc = "p39"
    /\ quit_requested' = TRUE
    /\ listener' = SetHpc(c, "p40")
    /\ quit_first' = (quit_first \/ (c = call /\ InCall /\ ~trigger_seen))
    /\ quit_in_rec' = (quit_in_rec \/ (stream_open /\ pc \in LoopPcs \cup {"close"}))
    /\ UNCHANGED <<orchVars, is_recording, audio_data, start_time, call, pc, outcome,
                   result, stream_open, cb, envVars, opens, stop_count,
                   appended, trigger_seen, tap_handled>>

\* on_press line 40: self.is_recording = False
PressQuitStop(c) ==
    /\ listener[c].hpc = "p40"
    /\ is_recording' = FALSE
    /\ listener' = SetHpc(c, "p41")
    /\ UNCHANGED <<orchVars, quit_requested, audio_data, start_time, call, pc,
                   outcome, result, stream_open, cb, envVars, histVars>>

\* on_press lines 41-42: recording_complete.set(); return False
PressQuitSignal(c) ==
    /\ listener[c].hpc = "p41"
    /\ stop_count' = IF c = call THEN stop_count + 1 ELSE stop_count
    /\ listener' = ReturnFalse(c)
    /\ UNCHANGED <<orchVars, fieldVars, call, pc, outcome, result, stream_open, cb,
                   envVars, opens, appended, trigger_seen, tap_handled,
                   quit_first, quit_in_rec>>

\* on_press line 45: if key == keyboard.Key.ctrl_r and not self.is_recording:
PressTriggerCheck(c) ==
    /\ listener[c].hpc = "p45"
    /\ listener' = SetHpc(c, IF is_recording THEN "idle" ELSE "p46")
    /\ UNCHANGED <<orchVars, fieldVars, call, pc, outcome, result, stream_open, cb,
                   envVars, histVars>>

\* on_press line 46: self.is_recording = True
PressTriggerStart(c) ==
    /\ listener[c].hpc = "p46"
    /\ is_recording' = TRUE
    /\ trigger_seen' = (trigger_seen \/ InCall)
    /\ listener' = SetHpc(c, "p47")
    /\ UNCHANGED <<orchVars, quit_requested, audio_data, start_time, call, pc,
                   outcome, result, stream_open, cb, envVars, opens,
                   stop_count, appended, tap_handled, quit_first,
                   quit_in_rec>>

\* on_press line 47: self.start_time = time.time()
PressTriggerTime(c) ==
    /\ listener[c].hpc = "p47"
    /\ start_time' = <<now>>
    /\ listener' = SetHpc(c, "p48")
    /\ UNCHANGED <<orchVars, is_recording, quit_requested, audio_data, call, pc,
                   outcome, result, stream_open, cb, envVars, histVars>>

\* on_press line 48: self.audio_data = []
PressTriggerClear(c) ==
    /\ listener[c].hpc = "p48"
    /\ audio_data' = <<>>
    /\ listener' = SetHpc(c, "idle")
    /\ UNCHANGED <<orchVars, is_recording, quit_requested, start_time, call, pc,
                   outcome, result, stream_open, cb, envVars, histVars>>

\* on_release line 54: if key == keyboard.Key.ctrl_r and self.is_recording:
ReleaseCheck(c) ==
    /\ listener[c].hpc = "r54"
    /\ listener' = SetHpc(c, IF is_recording THEN "r55" ELSE "idle")
    /\ UNCHANGED <<orchVars, fieldVars, call, pc, outcome, result, stream_open, cb,
                   envVars, histVars>>

\* on_release line 55: self.is_recording = False
ReleaseStop(c) ==
    /\ listener[c].hpc = "r55"
    /\ is_recording' = FALSE
    /\ listener' = SetHpc(c, "r56")
    /\ UNCHANGED <<orchVars, quit_requested, audio_data, start_time, call, pc,
                   outcome, result, stream_open, cb, envVars, histVars>>

\* on_release lines 56-57: recording_complete.set(); return False
ReleaseSignal(c) ==
    /\ listener[c].hpc = "r56"
    /\ stop_count' = IF c = call THEN stop_count + 1 ELSE stop_count
    /\ tap_handled' = (tap_handled \/ (c = call /\ InCall))
    /\ listener' = ReturnFalse(c)
    /\ UNCHANGED <<orchVars, fieldVars, call, pc, outcome, result, stream_open, cb,
                   envVars, opens, appended, trigger_seen, quit_first,
                   quit_in_rec>>

ListenerStep ==
    \E c \in Calls :
        \/ PressQuitSet(c)
        \/ PressQuitStop(c)
        \/ PressQuitSignal(c)
        \/ PressTriggerCheck(c)
        \/ PressTriggerStart(c)
        \/ PressTriggerTime(c)
        \/ PressTriggerClear(c)
        \/ ReleaseCheck(c)
        \/ ReleaseStop(c)
        \/ ReleaseSignal(c)

(***************************************************************************)
(* Audio callback thread: _audio_callback, called by sounddevice for each  *)
(* block while the stream is open.                                         *)
(***************************************************************************)
\* lines 104-108: a block arrives; if self.is_recording: (a block that
\* arrives while is_recording is False changes nothing)
AudioBlock ==
    /\ stream_open
    /\ cb = 0
    /\ is_recording
    /\ nchunks < MaxChunks
    /\ nchunks' = nchunks + 1
    /\ cb' = nchunks + 1
    /\ UNCHANGED <<orchVars, fieldVars, call, pc, outcome, result, listener,
                   stream_open, held, now, nkeys, histVars>>

\* line 109: self.audio_data.append(indata.copy())
AudioAppend ==
    /\ cb # 0
    /\ audio_data' = Append(audio_data, cb)
    /\ appended' = Append(appended, cb)
    /\ cb' = 0
    /\ UNCHANGED <<orchVars, is_recording, quit_requested, start_time, call, pc,
                   outcome, result, listener, stream_open, envVars, opens,
                   stop_count, trigger_seen, tap_handled, quit_first,
                   quit_in_rec>>

CallbackStep == AudioBlock \/ AudioAppend

\* Time passes.  The clock is read at line 47 and at line 81 only, so the
\* model lets it advance right before one of these reads.
Tick ==
    /\ pc = "l81" \/ \E c \in Calls : listener[c].hpc = "p47"
    /\ now < MaxTicks * TickSeconds
    /\ now' = now + TickSeconds
    /\ UNCHANGED <<orchVars, fieldVars, call, pc, outcome, result, listener,
                   stream_open, cb, held, nkeys, nchunks, histVars>>

\* an empty params dict: neither 'topic' nor 'track'
NoParams == [has_topic |-> FALSE, topic |-> <<>>, has_track |-> FALSE,
             track |-> ""]

\* no classification: outside classify_and_execute_intent
NoClassification ==
    [intent |-> "none", params |-> NoParams,
     needs_clarification |-> FALSE, clarification_question |-> "",
     confidence |-> 0]

\* nothing decided yet in this turn, and no task called
NoDecision == [kind |-> "none", handler |-> "", topic |-> <<>>,
               track |-> "", question |-> ""]

NoInputs == [topic |-> <<>>, track |-> ""]

\* VoiceOrchestrator.__init__ (orchestrator.py 27-48)
OrchInit ==
    /\ state = "idle"
    /\ should_exit = FALSE
    /\ total_turns = 0
    /\ errors = 0
    /\ avg_stt_time = <<0, 1>>
    /\ avg_agent_time = <<0, 1>>
    /\ avg_tts_time = <<0, 1>>
    /\ avg_total_time = <<0, 1>>
    /\ stt_time = 0
    /\ agent_time = 0
    /\ tts_time = 0
    /\ elapsed = 0
    /\ opc = "loop"
    /\ mode = "none"
    /\ audio = "unset"
    /\ user_text = <<>>
    /\ response = ""
    /\ classification = NoClassification
    /\ raw_result = NoClassification
    /\ calls = <<>>
    /\ failure = "none"
    /\ message = "none"
    /\ total_before = 0
    /\ turns = 0
    /\ end_reason = "none"
    /\ cap_cancelled = FALSE
    /\ stage_failed = FALSE
    /\ errors_before = 0
    /\ turns_completed = 0
    /\ turns_errored = 0
    /\ updates = 0
    /\ samples_sum = <<0, 0, 0, 0>>
    /\ cleanups = 0
    /\ trace = <<"idle">>
    /\ last_sample = <<>>
    /\ decision = NoDecision
    /\ reply = <<>>
    /\ task_inputs = NoInputs

Init == RecInit /\ OrchInit

RecNext ==
    \/ BeginCall
    \/ MainStep
    \/ OpenStreamFails
    \/ InterruptWaiting
    \/ InterruptRecording
    \/ ListenerStep
    \/ \E k \in {"quit", "trigger_down", "trigger_up"} : KeyEvent(k)
    \/ CallbackStep
    \/ Tick

RecSpec == Init /\ [][RecNext]_vars

\* The interpreter runs every thread that can run: the main thread keeps
\* polling, a callback that was entered runs to its end.
FairRecSpec ==
    /\ RecSpec
    /\ WF_vars(MainStep)
    /\ WF_vars(ListenerStep)
    /\ WF_vars(CallbackStep)

(***************************************************************************)
(* VoiceOrchestrator.run and the turn it handles, one action per stage.    *)
(* A stage that calls a collaborator (the recorder, the transcriber, the   *)
(* agent, the speaker) has one action per way the call can end: it         *)
(* returns, it raises an Exception, or the main thread gets a              *)
(* KeyboardInterrupt while it waits (OrchInterrupt).                       *)
(* record_push_to_talk ends as RecSpec shows: a non-empty array ("data"),  *)
(* an empty array ("empty"), None ("none"), or an exception.               *)
(***************************************************************************)
metricVars == <<total_turns, errors, avg_stt_time, avg_agent_time,
                avg_tts_time, avg_total_time>>
turnVars == <<mode, audio, user_text, response>>
timeVars == <<stt_time, agent_time, tts_time, elapsed>>
thinkVars == <<classification, raw_result>>
routeVars == <<decision, reply, task_inputs>>
orchHist == <<turns, end_reason, cap_cancelled, stage_failed, errors_before,
              turns_completed, turns_errored, updates, samples_sum, cleanups>>
turnHist == <<calls, failure, message, total_before, trace, last_sample>>

CaptureResults == {"data", "empty", "none"}

\* Texts are sequences of characters.  What the user types and what the
\* speech engine returns, before .strip()
Transcripts == {<<>>, <<" ">>, <<"h", "i">>, <<" ", "h", "i", " ">>}
Responses == {"", "your next class is on monday"}

\* str.strip(): leading and trailing whitespace removed
RECURSIVE StripLeft(_)
StripLeft(s) ==
    IF s # <<>> /\ Head(s) = " " THEN StripLeft(Tail(s)) ELSE s

RECURSIVE StripRight(_)
StripRight(s) ==
    IF s # <<>> /\ s[Len(s)] = " "
    THEN StripRight(SubSeq(s, 1, Len(s) - 1)) ELSE s

Strip(s) == StripRight(StripLeft(s))

\* `not text or len(text.strip()) == 0` (lines 210 and 266)
IsBlank(s) == s = <<>> \/ Len(Strip(s)) = 0

(***************************************************************************)
(* IntentClassifier.classify (intent_classifier.py 28-108).  The model     *)
(* answers with any JSON object, or the call fails.  A classification is   *)
(* the dict classify returns; params holds whether it has a 'topic' key    *)
(* and a 'track' key, and their values; confidence is in percent.          *)
(***************************************************************************)
INTENTS == {"next_class", "topic_research", "weekly_plan", "assignments",
            "help"}

\* intent labels the model may answer with: the known ones and another one
ModelIntents == INTENTS \cup {"small_talk"}

ModelParams ==
    {[has_topic |-> t[1], topic |-> t[2], has_track |-> k[1], track |-> k[2]] :
        t \in {<<FALSE, <<>>>>, <<TRUE, <<"a", "i">>>>},
        k \in {<<FALSE, "">>, <<TRUE, "Tech">>, <<TRUE, "Analyst">>,
               <<TRUE, "Invalid">>}}

Questions == {"", "which topic?"}
Confidences == {20, 95}

ModelResults ==
    [intent : ModelIntents, params : ModelParams,
     needs_clarification : BOOLEAN,
     clarification_question : Questions, confidence : Confidences]

\* the keys of the dict classify documents (lines 38-43); a dict is a
\* function on the keys it has
Keys == {"intent", "params", "confidence", "needs_clarification",
         "clarification_question"}

\* the JSON object the model answered with has only some of the keys
Restrict(answer, keys) == [k \in keys |-> answer[k]]

\* dict.setdefault(k, v)
SetDefault(d, k, v) ==
    [x \in DOMAIN d \cup {k} |-> IF x \in DOMAIN d THEN d[x] ELSE v]

\* lines 85-89: an intent that is missing or not in INTENTS becomes help
\* with confidence 0.5
Validate(answer) ==
    IF "intent" \notin DOMAIN answer \/ answer.intent \notin INTENTS
    THEN [x \in DOMAIN answer \cup {"intent", "confidence"} |->
             IF x = "intent" THEN "help"
             ELSE IF x = "confidence" THEN 50
             ELSE answer[x]]
    ELSE answer

\* lines 91-95: result.setdefault for the four other keys
SetDefaults_None(d) == d

SetDefaults(d) ==
    SetDefault(SetDefault(SetDefault(SetDefault(d,
        "params", NoParams),
        "confidence", 80),
        "needs_clarification", FALSE),
        "clarification_question", "")

\* lines 83-97: what classify returns for the object the model answered
Classified(answer) == SetDefaults(Validate(answer))

\* answers of the model that classify is checked with on its own, before
\* keys are left out
SampleResults ==
    {a \in ModelResults : a.confidence = 95 /\ ~a.params.has_track}

\* why the try block of classify raised: the client call failed, the
\* content is not JSON, or it is JSON but not an object
ClassifyFailures == {"client", "json", "not_object"}

\* lines 99-108: the fallback classify returns when the call failed
Fallback ==
    [intent |-> "help", params |-> NoParams, needs_clarification |-> FALSE,
     clarification_question |-> "", confidence |-> 0]

\* lines 180-196: the agent task an intent is dispatched to
Handler(intent) ==
    CASE intent = "next_class" -> "get_next_class_info"
      [] intent = "topic_research" -> "research_topic"
      [] intent = "weekly_plan" -> "get_weekly_plan"
      [] intent = "assignments" -> "track_assignments"
      [] OTHER -> "get_next_class_info"

Handlers == {"get_next_class_info", "research_topic", "get_weekly_plan",
             "track_assignments"}

\* line 184: params.get('topic', 'AI Agents')
DefaultTopic == <<"A", "I", " ", "A", "g", "e", "n", "t", "s">>

\* line 191: params.get('track', 'Tech')
DefaultTrack == "Tech"

\* crew_agent.py 234-236: if track not in ['Tech', 'Analyst']: track = 'Tech'
ValidTrack_Unchecked(track) == track

ValidTrack(track) ==
    IF track \notin {"Tech", "Analyst"} THEN "Tech" ELSE track

(***************************************************************************)
(* What classify_and_execute_intent decides for a classification (lines    *)
(* 153-196): nothing to run, a question of the classifier to show, or an   *)
(* agent task to call with its arguments.                                  *)
(***************************************************************************)
NoAction == [kind |-> "no_action", handler |-> "", topic |-> <<>>,
             track |-> "", question |-> ""]

Clarify(q) == [kind |-> "clarify", handler |-> "", topic |-> <<>>,
               track |-> "", question |-> q]

\* lines 180-196: the task of the intent, with the arguments it is given
Dispatch(c) ==
    [kind |-> "dispatch",
     handler |-> Handler(c.intent),
     topic |-> IF Handler(c.intent) # "research_topic" THEN <<>>
               ELSE IF c.params.has_topic THEN c.params.topic
               ELSE DefaultTopic,
     track |-> IF Handler(c.intent) # "track_assignments" THEN ""
               ELSE IF c.params.has_track THEN c.params.track
               ELSE DefaultTrack,
     question |-> ""]

\* line 174: params['topic'] = topic
WithTopic(c, topic) ==
    [c EXCEPT !.params = [@ EXCEPT !.has_topic = TRUE, !.topic = topic]]

\* lines 162-171: the user is asked for the topic
AsksTopic(c) ==
    /\ c.intent # "help"
    /\ c.needs_clarification
    /\ c.clarification_question = ""
    /\ c.intent = "topic_research"
    /\ ~c.params.has_topic

\* lines 153-196 as a function of the classification and of what the user
\* replies if asked for the topic
Decide(c, r) ==
    IF c.intent = "help" THEN NoAction
    ELSE IF c.needs_clarification /\ c.clarification_question # ""
    THEN Clarify(c.clarification_question)
    ELSE IF AsksTopic(c)
    THEN IF Strip(r) = <<>> THEN NoAction
         ELSE Dispatch(WithTopic(c, Strip(r)))
    ELSE Dispatch(c)

\* what the task hands to crew.kickoff (crew_agent.py 162-167 and 234-254)
TaskInputs(d) ==
    [topic |-> d.topic,
     track |-> IF d.handler = "track_assignments" THEN ValidTrack(d.track)
               ELSE ""]

(***************************************************************************)
(* Metrics (lines 313-330).  An average is the exact fraction              *)
(* <<numerator, denominator>>; times are in whole seconds.                 *)
(***************************************************************************)
\* seconds a call of a collaborator takes, as time.time() measures them
CallSeconds == 1

\* times _update_metrics is called with when it is checked on its own
SampleTimes == {0, 1, 3}

\* lines 319-330: (avg * n + sample) / (n + 1)
RunningAverage_Unweighted(avg, n, sample) ==
    <<avg[1] + sample * avg[2], avg[2] * 2>>

RunningAverage(avg, n, sample) ==
    <<avg[1] * n + sample * avg[2], avg[2] * (n + 1)>>

\* lines 229 and 296: the arguments of _update_metrics
MetricArgs ==
    IF mode = "text" THEN <<0, agent_time, 0, elapsed>>
    ELSE <<stt_time, agent_time, tts_time, elapsed>>

\* lines 313-330: _update_metrics(stt_time, agent_time, tts_time,
\* total_time)
RecordMetrics(args) ==
    /\ total_turns' = total_turns + 1
    /\ avg_stt_time' = RunningAverage(avg_stt_time, total_turns, args[1])
    /\ avg_agent_time' = RunningAverage(avg_agent_time, total_turns, args[2])
    /\ avg_tts_time' = RunningAverage(avg_tts_time, total_turns, args[3])
    /\ avg_total_time' = RunningAverage(avg_total_time, total_turns, args[4])
    /\ samples_sum' = [i \in 1..4 |-> samples_sum[i] + args[i]]
    /\ updates' = updates + 1

\* self.state = s, and the states the engine has been in during the turn
Entered(s) == IF state = s THEN trace ELSE Append(trace, s)

\* lines 76-78: while not self.should_exit: self.state = State.IDLE
LoopTop ==
    /\ opc = "loop"
    /\ IF should_exit
       THEN /\ opc' = "cleanup"
            /\ UNCHANGED <<state, trace>>
       ELSE /\ state' = "idle"
            /\ trace' = Entered("idle")
            /\ opc' = "input"
    /\ UNCHANGED <<recVars, should_exit, metricVars, turnVars, timeVars,
                   thinkVars, routeVars, orchHist, calls, failure, message,
                   total_before, last_sample>>

\* lines 112-117: choice == 'v': the turn starts with a capture
SelectVoice ==
    /\ opc = "input"
    /\ turns < MaxTurns
    /\ turns' = turns + 1
    /\ mode' = "voice"
    /\ audio' = "unset"
    /\ user_text' = <<>>
    /\ response' = ""
    /\ stt_time' = 0
    /\ agent_time' = 0
    /\ tts_time' = 0
    /\ elapsed' = 0
    /\ decision' = NoDecision
    /\ reply' = <<>>
    /\ task_inputs' = NoInputs
    /\ stage_failed' = FALSE
    /\ errors_before' = errors
    /\ total_before' = total_turns
    /\ calls' = <<"capture">>
    /\ failure' = "none"
    /\ message' = "none"
    /\ trace' = <<state>>
    /\ last_sample' = <<>>
    /\ opc' = "cap1"
    /\ UNCHANGED <<recVars, state, should_exit, metricVars, thinkVars,
                   end_reason, cap_cancelled, turns_completed, turns_errored,
                   updates, samples_sum, cleanups>>

\* lines 120-125 and 90-92: choice == 't', input(...).strip() is a text
\* other than '/exit': handle_text_turn(text)
SelectText(text) ==
    /\ opc = "input"
    /\ turns < MaxTurns
    /\ turns' = turns + 1
    /\ mode' = "text"
    /\ audio' = "unset"
    /\ user_text' = Strip(text)
    /\ response' = ""
    /\ stt_time' = 0
    /\ agent_time' = 0
    /\ tts_time' = 0
    /\ elapsed' = 0
    /\ decision' = NoDecision
    /\ reply' = <<>>
    /\ task_inputs' = NoInputs
    /\ stage_failed' = FALSE
    /\ errors_before' = errors
    /\ total_before' = total_turns
    /\ calls' = <<>>
    /\ failure' = "none"
    /\ message' = "none"
    /\ trace' = <<state>>
    /\ last_sample' = <<>>
    /\ opc' = "t_start"
    /\ UNCHANGED <<recVars, state, should_exit, metricVars, thinkVars,
                   end_reason, cap_cancelled, turns_completed, turns_errored,
                   updates, samples_sum, cleanups>>

\* lines 123-124, 127-128 and 84-86: 'e' or '/exit' at the mode prompt, or
\* '/exit' as the typed question: self.should_exit = True; break
SelectExit ==
    /\ opc = "input"
    /\ should_exit' = TRUE
    /\ end_reason' = "exit"
    /\ opc' = "cleanup"
    /\ UNCHANGED <<recVars, state, metricVars, turnVars, timeVars, thinkVars,
                   routeVars, turns, cap_cancelled, stage_failed,
                   errors_before, turns_completed, turns_errored, updates,
                   samples_sum, cleanups, turnHist>>

\* lines 130-133: any other choice: the prompt is shown again
SelectInvalid ==
    /\ opc = "input"
    /\ UNCHANGED vars

\* lines 117-118 and 87-89: record_push_to_talk returns;
\* handle_voice_turn(audio_data=data)
Capture1Returns(a) ==
    /\ opc = "cap1"
    /\ audio' = a
    /\ cap_cancelled' = (cap_cancelled \/ a = "none")
    /\ opc' = "v_start"
    /\ UNCHANGED <<recVars, state, should_exit, metricVars, mode, user_text,
                   response, timeVars, thinkVars, routeVars, turns,
                   end_reason, stage_failed, errors_before, turns_completed,
                   turns_errored, updates, samples_sum, cleanups, turnHist>>

\* line 117 raises: the exception leaves wait_for_user_input (lines 96-97)
Capture1Raises ==
    /\ opc = "cap1"
    /\ turns_errored' = turns_errored + 1
    /\ failure' = "capture"
    /\ opc' = "herr"
    /\ UNCHANGED <<recVars, state, should_exit, metricVars, turnVars,
                   timeVars, thinkVars, routeVars, turns, end_reason,
                   cap_cancelled, stage_failed, errors_before,
                   turns_completed, updates, samples_sum, cleanups, calls,
                   message, total_before, trace, last_sample>>

\* lines 246-252: if audio_data is None: state = RECORDING and record
VoiceStart ==
    /\ opc = "v_start"
    /\ IF audio = "none"
       THEN /\ state' = "recording"
            /\ trace' = Entered("recording")
            /\ calls' = Append(calls, "capture")
            /\ opc' = "cap2"
       ELSE /\ opc' = "v_len"
            /\ UNCHANGED <<state, trace, calls>>
    /\ UNCHANGED <<recVars, should_exit, metricVars, turnVars, timeVars,
                   thinkVars, routeVars, orchHist, failure, message,
                   total_before, last_sample>>

\* line 249: record_push_to_talk returns
Capture2Returns(a) ==
    /\ opc = "cap2"
    /\ audio' = a
    /\ elapsed' = elapsed + CallSeconds
    /\ opc' = "v_len"
    /\ UNCHANGED <<recVars, state, should_exit, metricVars, mode, user_text,
                   response, stt_time, agent_time, tts_time, thinkVars,
                   routeVars, orchHist, turnHist>>

\* line 249 raises: lines 298-300, self.state = State.ERROR; raise
Capture2Raises ==
    /\ opc = "cap2"
    /\ state' = "error"
    /\ trace' = Entered("error")
    /\ turns_errored' = turns_errored + 1
    /\ failure' = "capture"
    /\ opc' = "herr"
    /\ UNCHANGED <<recVars, should_exit, metricVars, turnVars, timeVars,
                   thinkVars, routeVars, turns, end_reason, cap_cancelled,
                   stage_failed, errors_before, turns_completed, updates,
                   samples_sum, cleanups, calls, message, total_before,
                   last_sample>>

\* lines 254-263: if len(audio) == 0: show_error; return (len(None) is a
\* TypeError); self.state = State.PROCESSING; transcribe is called
CheckAudioLength_NoCheck ==
    /\ opc = "v_len"
    /\ CASE audio = "none" ->
                /\ state' = "error"
                /\ trace' = Entered("error")
                /\ turns_errored' = turns_errored + 1
                /\ failure' = "len_of_none"
                /\ opc' = "herr"
                /\ UNCHANGED <<calls, message>>
         [] OTHER ->
                /\ state' = "processing"
                /\ trace' = Entered("processing")
                /\ calls' = Append(calls, "transcribe")
                /\ opc' = "stt"
                /\ UNCHANGED <<turns_errored, failure, message>>
    /\ UNCHANGED <<recVars, should_exit, metricVars, turnVars, timeVars,
                   thinkVars, routeVars, turns, end_reason, cap_cancelled,
                   stage_failed, errors_before, turns_completed, updates,
                   samples_sum, cleanups, total_before, last_sample>>

CheckAudioLength ==
    /\ opc = "v_len"
    /\ CASE audio = "none" ->
                /\ state' = "error"
                /\ trace' = Entered("error")
                /\ turns_errored' = turns_errored + 1
                /\ failure' = "len_of_none"
                /\ opc' = "herr"
                /\ UNCHANGED <<calls, message>>
         [] audio = "empty" ->
                /\ message' = "no_audio"
                /\ opc' = "loop"
                /\ UNCHANGED <<state, trace, turns_errored, failure, calls>>
         [] audio = "data" ->
                /\ state' = "processing"
                /\ trace' = Entered("processing")
                /\ calls' = Append(calls, "transcribe")
                /\ opc' = "stt"
                /\ UNCHANGED <<turns_errored, failure, message>>
    /\ UNCHANGED <<recVars, should_exit, metricVars, turnVars, timeVars,
                   thinkVars, routeVars, turns, end_reason, cap_cancelled,
                   stage_failed, errors_before, turns_completed, updates,
                   samples_sum, cleanups, total_before, last_sample>>

\* lines 262-277 and stt.py 58-59: transcribe returns text.strip(), and
\* stt_time is the time it took; a blank transcript ends the turn;
\* self.state = State.THINKING; classify is called (line 148)
TranscribeReturns_NoCheck(t) ==
    /\ opc = "stt"
    /\ user_text' = Strip(t)
    /\ stt_time' = CallSeconds
    /\ elapsed' = elapsed + CallSeconds
    /\ state' = "thinking"
    /\ trace' = Entered("thinking")
    /\ calls' = Append(calls, "classify")
    /\ opc' = "think"
    /\ UNCHANGED <<recVars, should_exit, metricVars, mode, audio, response,
                   agent_time, tts_time, thinkVars, routeVars, orchHist,
                   failure, message, total_before, last_sample>>

TranscribeReturns(t) ==
    /\ opc = "stt"
    /\ user_text' = Strip(t)
    /\ stt_time' = CallSeconds
    /\ elapsed' = elapsed + CallSeconds
    /\ IF IsBlank(Strip(t))
       THEN /\ message' = "no_speech"
            /\ opc' = "loop"
            /\ UNCHANGED <<state, trace, calls>>
       ELSE /\ state' = "thinking"
            /\ trace' = Entered("thinking")
            /\ calls' = Append(calls, "classify")
            /\ opc' = "think"
            /\ UNCHANGED message
    /\ UNCHANGED <<recVars, should_exit, metricVars, mode, audio, response,
                   agent_time, tts_time, thinkVars, routeVars, orchHist,
                   failure, total_before, last_sample>>

\* line 263 raises: lines 298-300
TranscribeRaises ==
    /\ opc = "stt"
    /\ state' = "error"
    /\ trace' = Entered("error")
    /\ stage_failed' = TRUE
    /\ failure' = "transcribe"
    /\ turns_errored' = turns_errored + 1
    /\ opc' = "herr"
    /\ UNCHANGED <<recVars, should_exit, metricVars, turnVars, timeVars,
                   thinkVars, routeVars, turns, end_reason, cap_cancelled,
                   errors_before, turns_completed, updates, samples_sum,
                   cleanups, calls, message, total_before, last_sample>>

\* lines 210-221: a blank text ends the turn; self.state = State.THINKING;
\* classify is called (line 148)
TextStart_NoThinking ==
    /\ opc = "t_start"
    /\ IF IsBlank(user_text)
       THEN /\ message' = "empty_input"
            /\ opc' = "loop"
            /\ UNCHANGED calls
       ELSE /\ calls' = Append(calls, "classify")
            /\ opc' = "think"
            /\ UNCHANGED message
    /\ UNCHANGED <<recVars, state, should_exit, metricVars, turnVars,
                   timeVars, thinkVars, routeVars, orchHist, failure,
                   total_before, trace, last_sample>>

TextStart ==
    /\ opc = "t_start"
    /\ IF IsBlank(user_text)
       THEN /\ message' = "empty_input"
            /\ opc' = "loop"
            /\ UNCHANGED <<state, trace, calls>>
       ELSE /\ state' = "thinking"
            /\ trace' = Entered("thinking")
            /\ calls' = Append(calls, "classify")
            /\ opc' = "think"
            /\ UNCHANGED message
    /\ UNCHANGED <<recVars, should_exit, metricVars, turnVars, timeVars,
                   thinkVars, routeVars, orchHist, failure, total_before,
                   last_sample>>

\* line 148 and intent_classifier.py 71-97: the model answers; classify
\* validates the intent and returns the dict
ClassifyReturns(answer) ==
    /\ opc = "think"
    /\ raw_result' = answer
    /\ classification' = Classified(answer)
    /\ elapsed' = elapsed + CallSeconds
    /\ opc' = "l153"
    /\ UNCHANGED <<recVars, state, should_exit, metricVars, turnVars,
                   stt_time, agent_time, tts_time, routeVars, orchHist,
                   turnHist>>

\* line 148 and intent_classifier.py 99-108: the client call or json.loads
\* raises; classify returns the fallback
ClassifyFallback ==
    /\ opc = "think"
    /\ raw_result' = NoClassification
    /\ classification' = Fallback
    /\ elapsed' = elapsed + CallSeconds
    /\ opc' = "l153"
    /\ UNCHANGED <<recVars, state, should_exit, metricVars, turnVars,
                   stt_time, agent_time, tts_time, routeVars, orchHist,
                   turnHist>>

\* classify_and_execute_intent lines 153-159 (help) and 162-167 (a
\* clarification question of the classifier): the help notice or the
\* question is printed; return "", 0.0
ThinkNoAction ==
    /\ opc = "l153"
    /\ \/ classification.intent = "help"
       \/ /\ classification.needs_clarification
          /\ classification.clarification_question # ""
    /\ message' = IF classification.intent = "help" THEN "help"
                  ELSE classification.clarification_question
    /\ decision' = IF classification.intent = "help" THEN NoAction
                   ELSE Clarify(classification.clarification_question)
    /\ response' = ""
    /\ agent_time' = 0
    /\ opc' = "t_done"
    /\ UNCHANGED <<recVars, state, should_exit, metricVars, mode, audio,
                   user_text, stt_time, tts_time, elapsed, thinkVars, reply,
                   task_inputs, orchHist, calls, failure, total_before, trace,
                   last_sample>>

\* lines 162-171: needs_clarification without a question, topic_research
\* and no 'topic' in params: ask_for_parameter('topic')
ThinkAskTopic_IgnoresQuestion ==
    /\ opc = "l153"
    /\ classification.intent # "help"
    /\ classification.needs_clarification
    /\ classification.intent = "topic_research"
    /\ ~classification.params.has_topic
    /\ calls' = Append(calls, "ask_for_parameter")
    /\ opc' = "ask"
    /\ UNCHANGED <<recVars, state, should_exit, metricVars, turnVars,
                   timeVars, thinkVars, routeVars, orchHist, failure, message,
                   total_before, trace, last_sample>>

ThinkAskTopic ==
    /\ opc = "l153"
    /\ AsksTopic(classification)
    /\ calls' = Append(calls, "ask_for_parameter")
    /\ opc' = "ask"
    /\ UNCHANGED <<recVars, state, should_exit, metricVars, turnVars,
                   timeVars, thinkVars, routeVars, orchHist, failure, message,
                   total_before, trace, last_sample>>

\* lines 171-174 and terminal.py 187-188: the user's reply, stripped; an
\* empty reply returns "", 0.0; otherwise params['topic'] = topic (params
\* is the dict inside classification)
AskTopicReturns(r) ==
    /\ opc = "ask"
    /\ reply' = r
    /\ elapsed' = elapsed + CallSeconds
    /\ IF Strip(r) = <<>>
       THEN /\ response' = ""
            /\ agent_time' = 0
            /\ decision' = NoAction
            /\ opc' = "t_done"
            /\ UNCHANGED classification
       ELSE /\ classification' = WithTopic(classification, Strip(r))
            /\ opc' = "exec"
            /\ UNCHANGED <<response, agent_time, decision>>
    /\ UNCHANGED <<recVars, state, should_exit, metricVars, mode, audio,
                   user_text, stt_time, tts_time, raw_result, task_inputs,
                   orchHist, turnHist>>

\* lines 177-196 and crew_agent.py 234-254: the agent task for the intent
\* is called with its arguments; track_assignments validates the track
\* before it starts the crew
ThinkDispatch_NoHelpCheck ==
    /\ \/ opc = "exec"
       \/ /\ opc = "l153"
          /\ ~ /\ classification.needs_clarification
               /\ \/ classification.clarification_question # ""
                  \/ /\ classification.intent = "topic_research"
                     /\ ~classification.params.has_topic
    /\ decision' = Dispatch(classification)
    /\ task_inputs' = TaskInputs(Dispatch(classification))
    /\ calls' = Append(calls, Handler(classification.intent))
    /\ opc' = "agent"
    /\ UNCHANGED <<recVars, state, should_exit, metricVars, turnVars,
                   timeVars, thinkVars, reply, orchHist, failure, message,
                   total_before, trace, last_sample>>

ThinkDispatch_PopsTopic ==
    /\ \/ opc = "exec"
       \/ /\ opc = "l153"
          /\ classification.intent # "help"
          /\ ~ /\ classification.needs_clarification
               /\ \/ classification.clarification_question # ""
                  \/ /\ classification.intent = "topic_research"
                     /\ ~classification.params.has_topic
    /\ decision' = Dispatch(classification)
    /\ task_inputs' = TaskInputs(Dispatch(classification))
    /\ classification' =
           [classification EXCEPT
               !.params = [@ EXCEPT !.has_topic = FALSE, !.topic = <<>>]]
    /\ calls' = Append(calls, Handler(classification.intent))
    /\ opc' = "agent"
    /\ UNCHANGED <<recVars, state, should_exit, metricVars, turnVars,
                   timeVars, raw_result, reply, orchHist, failure, message,
                   total_before, trace, last_sample>>

ThinkDispatch ==
    /\ \/ opc = "exec"
       \/ /\ opc = "l153"
          /\ classification.intent # "help"
          /\ ~ /\ classification.needs_clarification
               /\ \/ classification.clarification_question # ""
                  \/ /\ classification.intent = "topic_research"
                     /\ ~classification.params.has_topic
    /\ decision' = Dispatch(classification)
    /\ task_inputs' = TaskInputs(Dispatch(classification))
    /\ calls' = Append(calls, Handler(classification.intent))
    /\ opc' = "agent"
    /\ UNCHANGED <<recVars, state, should_exit, metricVars, turnVars,
                   timeVars, thinkVars, reply, orchHist, failure, message,
                   total_before, trace, last_sample>>

\* lines 181-199: the agent task returns; agent_time is the time it took
ThinkHandlerReturns(r) ==
    /\ opc = "agent"
    /\ response' = r
    /\ agent_time' = CallSeconds
    /\ elapsed' = elapsed + CallSeconds
    /\ opc' = "t_done"
    /\ UNCHANGED <<recVars, state, should_exit, metricVars, mode, audio,
                   user_text, stt_time, tts_time, thinkVars, routeVars,
                   orchHist, turnHist>>

\* lines 201-203: the agent task raises: show_error; return "", 0.0
ThinkHandlerRaises ==
    /\ opc = "agent"
    /\ response' = ""
    /\ agent_time' = 0
    /\ elapsed' = elapsed + CallSeconds
    /\ stage_failed' = TRUE
    /\ failure' = "task"
    /\ message' = "task_error"
    /\ opc' = "t_done"
    /\ UNCHANGED <<recVars, state, should_exit, metricVars, mode, audio,
                   user_text, stt_time, tts_time, thinkVars, routeVars, turns,
                   end_reason, cap_cancelled, errors_before, turns_completed,
                   turns_errored, updates, samples_sum, cleanups, calls,
                   total_before, trace, last_sample>>

\* classify_and_execute_intent returns (its locals are gone); lines 224-229
\* (text) and 280-296 (voice): show the response; in a voice turn with a
\* response, self.state = State.SPEAKING and speak; otherwise tts_time = 0
\* and _update_metrics is called
AfterThink_AlwaysSpeaks ==
    /\ opc = "t_done"
    /\ classification' = NoClassification
    /\ raw_result' = NoClassification
    /\ IF mode = "voice"
       THEN /\ state' = "speaking"
            /\ trace' = Entered("speaking")
            /\ calls' = Append(calls, "speak")
            /\ opc' = "tts"
            /\ UNCHANGED <<turns_completed, tts_time>>
       ELSE /\ opc' = "metrics"
            /\ calls' = Append(calls, "metrics")
            /\ turns_completed' = turns_completed + 1
            /\ tts_time' = 0
            /\ UNCHANGED <<state, trace>>
    /\ UNCHANGED <<recVars, should_exit, metricVars, turnVars, stt_time,
                   agent_time, elapsed, routeVars, turns, end_reason,
                   cap_cancelled, stage_failed, errors_before, turns_errored,
                   updates, samples_sum, cleanups, failure, message,
                   total_before, last_sample>>

AfterThink_SpeaksInText ==
    /\ opc = "t_done"
    /\ classification' = NoClassification
    /\ raw_result' = NoClassification
    /\ IF response # ""
       THEN /\ state' = "speaking"
            /\ trace' = Entered("speaking")
            /\ calls' = Append(calls, "speak")
            /\ opc' = "tts"
            /\ UNCHANGED <<turns_completed, tts_time>>
       ELSE /\ opc' = "metrics"
            /\ calls' = Append(calls, "metrics")
            /\ turns_completed' = turns_completed + 1
            /\ tts_time' = 0
            /\ UNCHANGED <<state, trace>>
    /\ UNCHANGED <<recVars, should_exit, metricVars, turnVars, stt_time,
                   agent_time, elapsed, routeVars, turns, end_reason,
                   cap_cancelled, stage_failed, errors_before, turns_errored,
                   updates, samples_sum, cleanups, failure, message,
                   total_before, last_sample>>

AfterThink ==
    /\ opc = "t_done"
    /\ classification' = NoClassification
    /\ raw_result' = NoClassification
    /\ IF mode = "voice" /\ response # ""
       THEN /\ state' = "speaking"
            /\ trace' = Entered("speaking")
            /\ calls' = Append(calls, "speak")
            /\ opc' = "tts"
            /\ UNCHANGED <<turns_completed, tts_time>>
       ELSE /\ opc' = "metrics"
            /\ calls' = Append(calls, "metrics")
            /\ turns_completed' = turns_completed + 1
            /\ tts_time' = 0
            /\ UNCHANGED <<state, trace>>
    /\ UNCHANGED <<recVars, should_exit, metricVars, turnVars, stt_time,
                   agent_time, elapsed, routeVars, turns, end_reason,
                   cap_cancelled, stage_failed, errors_before, turns_errored,
                   updates, samples_sum, cleanups, failure, message,
                   total_before, last_sample>>

\* lines 287-296: speak returns; tts_time is the time it took;
\* _update_metrics is called
SpeakReturns ==
    /\ opc = "tts"
    /\ tts_time' = CallSeconds
    /\ elapsed' = elapsed + CallSeconds
    /\ turns_completed' = turns_completed + 1
    /\ calls' = Append(calls, "metrics")
    /\ opc' = "metrics"
    /\ UNCHANGED <<recVars, state, should_exit, metricVars, turnVars,
                   stt_time, agent_time, thinkVars, routeVars, turns,
                   end_reason, cap_cancelled, stage_failed, errors_before,
                   turns_errored, updates, samples_sum, cleanups, failure,
                   message, total_before, trace, last_sample>>

\* line 288 raises: lines 298-300
SpeakRaises ==
    /\ opc = "tts"
    /\ state' = "error"
    /\ trace' = Entered("error")
    /\ stage_failed' = TRUE
    /\ failure' = "speak"
    /\ turns_errored' = turns_errored + 1
    /\ opc' = "herr"
    /\ UNCHANGED <<recVars, should_exit, metricVars, turnVars, timeVars,
                   thinkVars, routeVars, turns, end_reason, cap_cancelled,
                   errors_before, turns_completed, updates, samples_sum,
                   cleanups, calls, message, total_before, last_sample>>

\* lines 229 / 296 and 313-330: _update_metrics; the turn returns to run
UpdateMetrics ==
    /\ opc = "metrics"
    /\ RecordMetrics(MetricArgs)
    /\ last_sample' = MetricArgs
    /\ opc' = "loop"
    /\ UNCHANGED <<recVars, state, should_exit, errors, turnVars, timeVars,
                   thinkVars, routeVars, turns, end_reason, cap_cancelled,
                   stage_failed, errors_before, turns_completed,
                   turns_errored, cleanups, calls, failure, message,
                   total_before, trace>>

\* lines 96-97 and 302-311: handle_error
HandleError_Exits ==
    /\ opc = "herr"
    /\ errors' = errors + 1
    /\ state' = "idle"
    /\ trace' = Entered("idle")
    /\ should_exit' = TRUE
    /\ message' = "error"
    /\ opc' = "loop"
    /\ UNCHANGED <<recVars, total_turns, avg_stt_time, avg_agent_time,
                   avg_tts_time, avg_total_time, turnVars, timeVars,
                   thinkVars, routeVars, orchHist, calls, failure,
                   total_before, last_sample>>

HandleError_CountsTurn ==
    /\ opc = "herr"
    /\ errors' = errors + 1
    /\ total_turns' = total_turns + 1
    /\ state' = "idle"
    /\ trace' = Entered("idle")
    /\ message' = "error"
    /\ opc' = "loop"
    /\ UNCHANGED <<recVars, should_exit, avg_stt_time, avg_agent_time,
                   avg_tts_time, avg_total_time, turnVars, timeVars,
                   thinkVars, routeVars, orchHist, calls, failure,
                   total_before, last_sample>>

HandleError ==
    /\ opc = "herr"
    /\ errors' = errors + 1
    /\ state' = "idle"
    /\ trace' = Entered("idle")
    /\ message' = "error"
    /\ opc' = "loop"
    /\ UNCHANGED <<recVars, should_exit, total_turns, avg_stt_time,
                   avg_agent_time, avg_tts_time, avg_total_time, turnVars,
                   timeVars, thinkVars, routeVars, orchHist, calls, failure,
                   total_before, last_sample>>

\* lines 94-95: a KeyboardInterrupt while run waits for the user or for a
\* collaborator: break
OrchInterrupt_SkipsCleanup ==
    /\ opc \in {"input", "cap1", "cap2", "stt", "think", "ask", "agent",
                "tts"}
    /\ end_reason' = "interrupt"
    /\ classification' = NoClassification
    /\ raw_result' = NoClassification
    /\ opc' = "ended"
    /\ UNCHANGED <<recVars, state, should_exit, metricVars, turnVars,
                   timeVars, routeVars, turns, cap_cancelled, stage_failed,
                   errors_before, turns_completed, turns_errored, updates,
                   samples_sum, cleanups, turnHist>>

OrchInterrupt ==
    /\ opc \in {"input", "cap1", "cap2", "stt", "think", "ask", "agent",
                "tts"}
    /\ end_reason' = "interrupt"
    /\ classification' = NoClassification
    /\ raw_result' = NoClassification
    /\ opc' = "cleanup"
    /\ UNCHANGED <<recVars, state, should_exit, metricVars, turnVars,
                   timeVars, routeVars, turns, cap_cancelled, stage_failed,
                   errors_before, turns_completed, turns_errored, updates,
                   samples_sum, cleanups, turnHist>>

\* lines 99-100 and 332-342: finally: self.cleanup(); recorder.py 120-123:
\* the recorder's cleanup empties its buffer and clears is_recording
Cleanup ==
    /\ opc = "cleanup"
    /\ cleanups' = cleanups + 1
    /\ audio_data' = <<>>
    /\ is_recording' = FALSE
    /\ opc' = "ended"
    /\ UNCHANGED <<envVars, quit_requested, start_time, call, pc, outcome,
                   result, listener, stream_open, cb, histVars>>
    /\ UNCHANGED <<state, should_exit, metricVars, turnVars, timeVars,
                   thinkVars, routeVars, turns, end_reason, cap_cancelled,
                   stage_failed, errors_before, turns_completed,
                   turns_errored, updates, samples_sum, turnHist>>

\* _update_metrics (lines 313-330) on its own, called with any times
UpdateMetricsAlone(args) ==
    /\ total_turns < MaxUpdates
    /\ RecordMetrics(args)
    /\ UNCHANGED <<recVars, state, should_exit, errors, opc, turnVars,
                   timeVars, thinkVars, routeVars, turns, end_reason,
                   cap_cancelled, stage_failed, errors_before,
                   turns_completed, turns_errored, cleanups, turnHist>>

Next ==
    \/ LoopTop
    \/ SelectVoice
    \/ \E text \in Transcripts : SelectText(text)
    \/ SelectExit
    \/ SelectInvalid
    \/ \E a \in CaptureResults : Capture1Returns(a)
    \/ Capture1Raises
    \/ VoiceStart
    \/ \E a \in CaptureResults : Capture2Returns(a)
    \/ Capture2Raises
    \/ CheckAudioLength
    \/ \E t \in Transcripts : TranscribeReturns(t)
    \/ TranscribeRaises
    \/ TextStart
    \/ \E answer \in ModelResults : ClassifyReturns(answer)
    \/ ClassifyFallback
    \/ ThinkNoAction
    \/ ThinkAskTopic
    \/ \E r \in Transcripts : AskTopicReturns(r)
    \/ ThinkDispatch
    \/ \E r \in Responses : ThinkHandlerReturns(r)
    \/ ThinkHandlerRaises
    \/ AfterThink
    \/ SpeakReturns
    \/ SpeakRaises
    \/ UpdateMetrics
    \/ HandleError
    \/ OrchInterrupt
    \/ Cleanup

Spec == Init /\ [][Next]_vars

\* classify (intent_classifier.py 71-108) on its own: the model answers
\* with an object that has any of the keys
ClassifyAlone(answer, keys) ==
    /\ raw_result' = Restrict(answer, keys)
    /\ classification' = Classified(Restrict(answer, keys))
    /\ failure' = "none"
    /\ UNCHANGED <<recVars, state, should_exit, metricVars, opc, turnVars,
                   timeVars, routeVars, orchHist, calls, message,
                   total_before, trace, last_sample>>

\* lines 72-83 raise; lines 99-108 return the fallback
ClassifyAloneFails(why) ==
    /\ raw_result' = NoClassification
    /\ classification' = Fallback
    /\ failure' = why
    /\ UNCHANGED <<recVars, state, should_exit, metricVars, opc, turnVars,
                   timeVars, routeVars, orchHist, calls, message,
                   total_before, trace, last_sample>>

ClassifyNext ==
    \/ \E answer \in SampleResults, keys \in SUBSET Keys :
           ClassifyAlone(answer, keys)
    \/ \E why \in ClassifyFailures : ClassifyAloneFails(why)

ClassifySpec == Init /\ [][ClassifyNext]_vars

\* _update_metrics alone, on the metrics of a new orchestrator
MetricsNext ==
    \E stt, agent, tts, total \in SampleTimes :
        UpdateMetricsAlone(<<stt, agent, tts, total>>)

MetricsSpec == Init /\ [][MetricsNext]_vars

(***************************************************************************)
(* Properties of record_push_to_talk (checked under RecSpec, the liveness  *)
(* property under FairRecSpec).                                            *)
(***************************************************************************)
Returned == pc = "done" /\ outcome \in {"buffer", "cancelled"}

\* C1: a call in which the trigger key is pressed and then released (its
\* on_release has stopped the recording) eventually returns, for every
\* interleaving of the callbacks with the main thread's polling loops.
C1_PressReleaseReturns == tap_handled ~> (pc = "done")

\* C2: once the recording has started, it is stopped exactly once per call:
\* when the call has returned and its callbacks have finished, exactly one
\* of release, quit and timeout has signalled recording_complete.
C2_ExactlyOnceStop ==
    (Returned /\ opens = 1 /\ HandlersIdle) => stop_count = 1

\* C7: when the call stops on release or on max-duration, the returned
\* buffer is the concatenation, in arrival order, of every chunk the audio
\* callback appended during the call.
C7_BufferIsEveryChunk ==
    (pc = "done" /\ outcome = "buffer") => result = Concatenate(appended)

C9_QuitBeforeTriggerNeverOpens ==
    /\ quit_first => /\ opens = 0
                     /\ pc = "done" => outcome \in {"cancelled", "interrupt"}
    /\ opens > 0 => trigger_seen

C9_Witness ==
    /\ pc = "done"
    /\ quit_first
    /\ outcome = "cancelled"
    /\ opens = 0

\* C10: every call opens the input device at most once, and when the call
\* has returned or raised, the device is closed.
C10_DeviceOpenedOnceAndReleased ==
    /\ opens <= 1
    /\ pc \in {"idle", "done"} => ~stream_open

C10_Witness ==
    /\ pc = "done"
    /\ outcome = "error"
    /\ opens = 1
    /\ ~stream_open

\* C11: when a call has returned or raised, on any exit path, the
\* keyboard.Listener that call started has been stopped.
C11_ListenerStoppedOnExit ==
    pc = "done" => listener[call].status = "stopped"

\* C12: a call whose recording has started (the device was opened), in
\* which this call's on_release has stopped nothing and the quit key was
\* not observed, ends by returning a buffer (a KeyboardInterrupt aside).
C12_HeldRecordingReturnsBuffer ==
    (pc = "done" /\ opens = 1 /\ ~tap_handled /\ ~quit_requested
        /\ outcome # "interrupt")
        => outcome = "buffer"

\* C13: a call that returns with no chunk accumulated returns the
\* zero-length buffer; a call returns None only if the quit key was
\* observed since line 31 of that call; and the call does not go on to
\* build a buffer (line 95) when the quit key has been observed in it.
C13_EmptyBufferVersusCancelled ==
    /\ (pc = "done" /\ outcome = "buffer" /\ appended = <<>>)
            => result = <<>>
    /\ (pc = "done" /\ outcome = "cancelled") => quit_requested
    /\ pc = "l95" => ~quit_requested

(***************************************************************************)
(* Properties of the run loop (checked under Spec).                        *)
(***************************************************************************)
\* C3: when the capture started from voice-mode selection returns None
\* (cancelled), the run loop ends: no further capture, transcription, task
\* or speech is started and no input is asked for.
C3_CancelledCaptureExits ==
    cap_cancelled => opc \in {"v_start", "cleanup", "ended"}

\* C4: every stage-level failure inside a turn (an exception from
\* transcription, from the task, or from speech) increments
\* metrics['errors'] by exactly 1 for that turn, and the loop is back in
\* Idle.
C4_StageFailureCountedOnce ==
    (opc = "input" /\ stage_failed)
        => (errors = errors_before + 1 /\ state = "idle")

\* C5: Error is never terminal: from every state in which self.state is
\* ERROR the engine next returns to IDLE at the top of the run loop with
\* should_exit not set, and the run loop ends only on exit selection or a
\* KeyboardInterrupt.
C5_ErrorIsNeverTerminal ==
    /\ [][state = "error"
            => (state' = "idle" /\ opc' = "loop" /\ ~should_exit')]_vars
    /\ [](opc \in {"cleanup", "ended"}
            => end_reason \in {"exit", "interrupt"})

C5_Witness == state = "error" /\ errors >= 1

\* C6 as stated: after any sequence of turns total_turns equals the number
\* of completed turns plus the number of turns that ended in an error.
C6_TotalTurnsCountsCompletedAndErrored ==
    opc = "input" => total_turns = turns_completed + turns_errored

\* C6 as amended: after any sequence of turns total_turns equals the
\* number of completed turns; a turn that ends in handle_error, or that is
\* abandoned on empty input, leaves it unchanged.
C6_TotalTurnsCountsCompleted ==
    opc \in {"loop", "input"} => total_turns = turns_completed

C6_Witness ==
    /\ opc = "input"
    /\ turns_errored >= 1
    /\ turns_completed >= 1
    /\ total_turns = turns_completed

(***************************************************************************)
(* Properties of a turn (checked under Spec).                              *)
(***************************************************************************)
IsHandler(s) == s \in Handlers

\* the agent tasks invoked in the current turn, in order
HandlerCalls == SelectSeq(calls, IsHandler)

\* position of a collaborator in the pipeline of a turn
Rank(s) ==
    CASE s = "capture" -> 1
      [] s = "transcribe" -> 2
      [] s = "classify" -> 3
      [] s = "ask_for_parameter" -> 4
      [] s \in Handlers -> 5
      [] s = "speak" -> 6
      [] s = "metrics" -> 7

\* the turn is over: run is at the top of its loop, or has left it
TurnOver == opc \in {"loop", "input", "cleanup", "ended"}

\* C14: when the agent task raises while the engine is in THINKING, the
\* engine's state becomes ERROR (and then IDLE): when
\* classify_and_execute_intent is about to return after the task raised,
\* self.state is ERROR.
C14_HandlerFailureEntersError ==
    (opc = "t_done" /\ failure = "task") => state = "error"

\* C15: a capture that returned None (cancelled by the quit key) is never
\* treated as an error: unless a collaborator raised in the turn, the
\* engine is not in ERROR and metrics['errors'] is what it was when the
\* turn started.
C15_CancelledCaptureIsNotAnError ==
    (audio = "none" /\ failure \in {"none", "len_of_none"})
        => (state # "error" /\ errors = errors_before)

\* the transcriber returned a blank transcript in this voice turn, or the
\* text typed in this text turn is blank
BlankInput ==
    /\ end_reason # "interrupt"
    /\ IsBlank(user_text)
    /\ \/ mode = "text" /\ opc # "t_start"
       \/ /\ mode = "voice"
          /\ opc # "stt"
          /\ failure = "none"
          /\ \E i \in 1..Len(calls) : calls[i] = "transcribe"

\* C16: a blank transcript (voice) or a blank text (text mode) ends the
\* turn: a message is shown, metrics['errors'] and metrics['total_turns']
\* are what they were when the turn started, neither the classifier, an
\* agent task, the speaker nor _update_metrics is invoked, and the loop
\* goes on from IDLE.
C16_BlankInputAbortsTurn ==
    BlankInput =>
        /\ TurnOver
        /\ message \in {"no_speech", "empty_input"}
        /\ errors = errors_before
        /\ total_turns = total_before
        /\ \A i \in 1..Len(calls) : calls[i] \in {"capture", "transcribe"}
        /\ opc = "input" => state = "idle"
        /\ end_reason = "none" => ~should_exit

C16_Witness ==
    /\ opc = "input"
    /\ mode = "voice"
    /\ BlankInput
    /\ message = "no_speech"
    /\ total_turns >= 1
    /\ state = "idle"

\* a capture of this voice turn returned a zero-length buffer and line 254
\* has looked at it
EmptyCapture ==
    mode = "voice" /\ audio = "empty" /\ opc \notin {"v_start", "v_len"}

\* C17: in a voice turn whose capture returned a zero-length buffer the
\* engine shows "No audio recorded" and the turn is over, back to IDLE at
\* the next prompt, with no collaborator other than the recorder invoked.
C17_EmptyCaptureSkipsTranscriber ==
    EmptyCapture =>
        /\ TurnOver
        /\ message = "no_audio"
        /\ \A i \in 1..Len(calls) : calls[i] = "capture"
        /\ opc = "input" => state = "idle"

C17_Witness ==
    /\ opc = "input"
    /\ EmptyCapture
    /\ message = "no_audio"
    /\ calls = <<"capture">>
    /\ state = "idle"

\* C18: within a turn the collaborators are invoked in pipeline order
\* (capture, transcribe, classify, task, speak), each at most once, and
\* _update_metrics at most once and after all of them.
C18_StagesInPipelineOrder ==
    \A i \in 1..(Len(calls) - 1) : Rank(calls[i]) < Rank(calls[i + 1])

\* C19: research_topic is called only with a 'topic' in params: a
\* topic_research classification without a topic never reaches the call
\* of the research task before a topic has been supplied.
C19_NoResearchWithoutTopic ==
    (opc = "agent" /\ calls[Len(calls)] = "research_topic")
        => classification.params.has_topic

\* C20: when the model's answer has an intent that is not one of the five
\* known intents, or a low confidence, classify_and_execute_intent invokes
\* get_next_class_info and no other agent task.
C20_UnknownOrUnsureFallsBackToNextClass ==
    (/\ opc = "t_done"
     /\ raw_result.intent # "none"
     /\ \/ raw_result.intent \notin INTENTS
        \/ raw_result.confidence < 50)
        => HandlerCalls = <<"get_next_class_info">>

(***************************************************************************)
(* Properties of routing, metrics and the run loop (checked under Spec;    *)
(* the running averages under MetricsSpec).                                *)
(***************************************************************************)
\* the collaborators a sequence of calls names
Range(s) == {s[i] : i \in DOMAIN s}

\* C21: a help classification never runs anything: whatever its params,
\* confidence and clarification fields are, no agent task is called, the
\* user is not asked for a parameter, and the response of the turn is
\* empty.
C21_HelpRunsNothing ==
    classification.intent = "help" =>
        /\ opc \in {"l153", "t_done"}
        /\ HandlerCalls = <<>>
        /\ "ask_for_parameter" \notin Range(calls)
        /\ response = ""
        /\ opc = "t_done" => decision = NoAction /\ message = "help"

\* a help classification with every other field set has been routed
C21_Witness ==
    /\ opc = "t_done"
    /\ raw_result.intent = "help"
    /\ classification.needs_clarification
    /\ classification.clarification_question # ""
    /\ classification.params.has_topic
    /\ classification.params.has_track
    /\ classification.confidence = 95
    /\ response = ""

\* C22: when the classification asks for clarification with a non-empty
\* question (and is not help), that question is shown word for word, no
\* agent task is called, the user is not asked for a parameter, and the
\* params of the classification stay as the classifier returned them.
C22_ClarificationQuestionShown ==
    ( /\ classification.intent \in INTENTS \ {"help"}
      /\ classification.needs_clarification
      /\ classification.clarification_question # "" ) =>
        /\ opc \in {"l153", "t_done"}
        /\ HandlerCalls = <<>>
        /\ "ask_for_parameter" \notin Range(calls)
        /\ classification.params = raw_result.params
        /\ opc = "t_done" =>
               /\ message = classification.clarification_question
               /\ decision = Clarify(classification.clarification_question)
               /\ response = ""

\* a topic_research without topic that came with a question has been routed
C22_Witness ==
    /\ opc = "t_done"
    /\ classification.intent = "topic_research"
    /\ ~classification.params.has_topic
    /\ classification.needs_clarification
    /\ classification.clarification_question = "which topic?"
    /\ message = "which topic?"
    /\ calls = <<"classify">>

\* C23: whenever the assignments task is called, the track it works with is
\* Tech or Analyst: a missing track becomes Tech and the user is not asked,
\* any other value becomes Tech and nothing is raised for it, and Analyst is
\* passed on as it is.
C23_AssignmentsTrackIsValid ==
    (opc = "agent" /\ decision.handler = "track_assignments") =>
        /\ task_inputs.track \in {"Tech", "Analyst"}
        /\ ~classification.params.has_track => task_inputs.track = "Tech"
        /\ ( /\ classification.params.has_track
             /\ classification.params.track \notin {"Tech", "Analyst"} ) =>
               task_inputs.track = "Tech"
        /\ ( /\ classification.params.has_track
             /\ classification.params.track = "Analyst" ) =>
               task_inputs.track = "Analyst"
        /\ "ask_for_parameter" \notin Range(calls)
        /\ failure = "none"

\* the assignments task has been called for a track that is neither Tech
\* nor Analyst, while the classification asked for clarification
C23_Witness ==
    /\ opc = "agent"
    /\ decision.handler = "track_assignments"
    /\ classification.params.has_track
    /\ classification.params.track = "Invalid"
    /\ classification.needs_clarification
    /\ decision.track = "Invalid"
    /\ task_inputs.track = "Tech"

\* the fraction avg is the mean of n samples whose sum is sum
IsMean(avg, n, sum) == avg[2] > 0 /\ avg[1] * n = sum * avg[2]

\* C24: after n calls of _update_metrics, total_turns is n and each running
\* average is the arithmetic mean of the n samples it was given: the
\* average times n is the sum of the samples.
C24_AveragesAreMeans ==
    /\ total_turns = updates
    /\ IsMean(avg_stt_time, updates, samples_sum[1])
    /\ IsMean(avg_agent_time, updates, samples_sum[2])
    /\ IsMean(avg_tts_time, updates, samples_sum[3])
    /\ IsMean(avg_total_time, updates, samples_sum[4])

\* three updates whose samples differ, with means that are not whole numbers
C24_Witness ==
    /\ updates = 3
    /\ samples_sum = <<1, 4, 0, 7>>
    /\ avg_total_time[1] * 3 = 7 * avg_total_time[2]

\* the turn has called _update_metrics
Recorded == last_sample # <<>>

\* calls of _update_metrics in the current turn
MetricCalls == Cardinality({i \in DOMAIN calls : calls[i] = "metrics"})

\* C25: a turn that completes records its metrics exactly once, with 0 for
\* every stage it did not run: a text turn calls neither the capture, the
\* transcriber nor the speaker and records stt = 0 and tts = 0 together
\* with its total time, and a voice turn without a response records
\* tts = 0.
C25_MetricsOncePerTurnWithZeros ==
    /\ MetricCalls <= 1
    /\ Recorded <=> (TurnOver /\ MetricCalls = 1)
    /\ Recorded =>
          /\ total_turns = total_before + 1
          /\ last_sample[4] = elapsed
          /\ "transcribe" \notin Range(calls) => last_sample[1] = 0
          /\ HandlerCalls = <<>> => last_sample[2] = 0
          /\ "speak" \notin Range(calls) => last_sample[3] = 0
          /\ mode = "text" =>
                /\ Range(calls) \cap {"capture", "transcribe", "speak"} = {}
                /\ last_sample[1] = 0
                /\ last_sample[3] = 0
                /\ last_sample[4] > 0
          /\ (mode = "voice" /\ response = "") => last_sample[3] = 0

\* a voice turn without a response, and before it a text turn, have each
\* recorded their metrics
C25_Witness ==
    /\ Recorded
    /\ mode = "voice"
    /\ response = ""
    /\ last_sample = <<CallSeconds, 0, 0, 2 * CallSeconds>>
    /\ total_turns = 2
    /\ samples_sum[1] = CallSeconds

\* C26: a text turn with a non-empty text whose agent task returns takes
\* the engine through exactly Idle, Thinking, Idle, and adds one to
\* total_turns.
C26_TextTurnStates ==
    ( /\ mode = "text"
      /\ HandlerCalls # <<>>
      /\ failure = "none" ) =>
        /\ state \in {"idle", "thinking"}
        /\ opc \in {"agent", "t_done", "metrics"} =>
               trace = <<"idle", "thinking">>
        /\ opc \in {"input", "cleanup", "ended"} /\ end_reason # "interrupt" =>
               /\ trace = <<"idle", "thinking", "idle">>
               /\ total_turns = total_before + 1
               /\ errors = errors_before

\* a text turn whose task returned a response is over
C26_Witness ==
    /\ mode = "text"
    /\ opc = "input"
    /\ user_text = <<"h", "i">>
    /\ Len(HandlerCalls) = 1
    /\ failure = "none"
    /\ response # ""
    /\ trace = <<"idle", "thinking", "idle">>

\* the turn entered Processing directly after Recording
ProcessingFromRecording ==
    \A i \in DOMAIN trace :
        trace[i] = "processing" => i > 1 /\ trace[i - 1] = "recording"

\* C27: while a capture (record_push_to_talk) is in progress the state of
\* the engine is RECORDING, and Processing is only entered from Recording.
C27_CaptureIsRecording ==
    /\ opc \in {"cap1", "cap2"} => state = "recording"
    /\ ProcessingFromRecording

\* C28: selecting exit puts the engine in the terminal Exit state: the
\* state is EXIT, the loop is left, and afterwards no stage is called and
\* no metric changes.
C28_ExitReachesExitState ==
    end_reason = "exit" =>
        /\ state = "exit"
        /\ opc \in {"cleanup", "ended"}

\* C29: however the run loop ends (exit selected, or an interrupt at the
\* mode prompt or in any stage of a turn), cleanup runs exactly once, after
\* the last activity of a stage and before run returns.
C29_CleanupExactlyOnce ==
    /\ cleanups <= 1
    /\ end_reason # "none" <=> opc \in {"cleanup", "ended"}
    /\ opc = "cleanup" => cleanups = 0
    /\ opc = "ended" <=> cleanups = 1

\* the loop was left by an interrupt in the middle of a turn, and cleanup
\* has run
C29_Witness ==
    /\ opc = "ended"
    /\ end_reason = "interrupt"
    /\ cleanups = 1
    /\ calls # <<>>
    /\ calls[Len(calls)] \in Handlers

\* C30: routing is idempotent.  Routing the classification again, as the
\* first routing left it and with the same reply of the user, decides what
\* the first routing decided: the same task with the same arguments, the
\* same clarification question, or no action.
C30_RoutingIsIdempotent ==
    (opc \in {"agent", "t_done"} /\ classification.intent \in INTENTS) =>
        /\ decision # NoDecision
        /\ Decide(classification, reply) = decision
        /\ Decide(Validate(raw_result), reply) = decision

\* the first routing asked for the topic and wrote it into params; routed
\* again, the classification goes to the same task with the same topic
C30_Witness ==
    /\ opc = "agent"
    /\ classification.params # raw_result.params
    /\ classification.params.topic = <<"h", "i">>
    /\ reply = <<" ", "h", "i", " ">>
    /\ decision.kind = "dispatch"
    /\ decision.handler = "research_topic"
    /\ decision.topic = <<"h", "i">>

\* C31: classify never raises.  When its try block fails it returns the
\* fallback, help with confidence 0.0; and whatever it returns has an
\* intent that is one of the five known intents and has the keys params,
\* confidence, needs_clarification and clarification_question.
C31_ClassifyAlwaysReturnsFullResult ==
    classification # NoClassification =>
        /\ DOMAIN classification = Keys
        /\ classification.intent \in INTENTS
        /\ failure \in ClassifyFailures =>
               /\ classification = Fallback
               /\ classification.intent = "help"
               /\ classification.confidence = 0
        /\ \A k \in DOMAIN raw_result \ {"intent", "confidence"} :
               classification[k] = raw_result[k]

\* the model answered with an object that has only a known intent
C31_Witness ==
    /\ DOMAIN raw_result = {"intent"}
    /\ raw_result.intent = "assignments"
    /\ classification.intent = "assignments"
    /\ classification.params = NoParams
    /\ classification.confidence = 80
    /\ ~classification.needs_clarification
    /\ classification.clarification_question = ""

\* C32: the state of a capture is not shared across calls of
\* record_push_to_talk: while a call runs, no callback of a listener that
\* an earlier call created changes is_recording, quit_requested or
\* audio_data.
C32_EarlierListenerChangesNothing ==
    [][\A c \in Calls :
          ( /\ c < call
            /\ InCall
            /\ listener[c].hpc # "idle"
            /\ listener'[c] # listener[c] ) =>
                UNCHANGED <<is_recording, quit_requested, audio_data>>]_vars

\* the turn called the speaker
Spoke == "speak" \in Range(calls)

\* C33: the speaker is called in a turn exactly when the turn is a voice
\* turn and the agent task returned a non-empty response, and only then is
\* the state SPEAKING; a turn that ends in help, in a clarification
\* question or in a failed task goes back to Idle without speech, in voice
\* and in text mode.
C33_SpeaksIffVoiceResponse ==
    /\ Spoke => /\ mode = "voice"
                /\ response # ""
                /\ decision.kind = "dispatch"
                /\ failure \in {"none", "speak"}
    /\ "speaking" \in Range(trace) <=> Spoke
    /\ state = "speaking" => Spoke
    /\ ( /\ "metrics" \in Range(calls)
         /\ mode = "voice"
         /\ response # "" ) => Spoke
    /\ ( /\ opc = "input"
         /\ \/ decision.kind \in {"no_action", "clarify"}
            \/ failure = "task" ) =>
           /\ ~Spoke
           /\ state = "idle"
           /\ trace[Len(trace)] = "idle"

\* a voice turn, the second turn of the run, has spoken its response and
\* is back at the prompt
C33_Witness ==
    /\ opc = "input"
    /\ mode = "voice"
    /\ Spoke
    /\ response # ""
    /\ turns = 2
    /\ total_turns = 2
    /\ trace = <<"idle", "processing", "thinking", "speaking", "idle">>

\* what classify returned in this turn
AsReturned ==
    IF raw_result = NoClassification THEN Fallback
    ELSE Classified(raw_result)

\* C34: the classification is not changed after classify returned it:
\* routing and execution leave its intent, params, confidence,
\* needs_clarification and clarification_question as they were, also when
\* a missing topic is collected from the user.
C34_ClassificationUnchanged ==
    opc \in {"l153", "ask", "exec", "agent", "t_done"} =>
        classification = AsReturned

\* classify returned topic_research without a topic in this turn
TopicMissing ==
    /\ AsReturned.intent = "topic_research"
    /\ ~AsReturned.params.has_topic

\* C35: when topic_research comes without a topic, the topic is collected
\* from the user before the dispatch: research_topic is only called after
\* the user's reply and with the topic the user supplied, and an empty
\* reply ends the turn without any agent task.
C35_TopicCollectedBeforeDispatch ==
    (TopicMissing /\ opc \in {"agent", "t_done"}) =>
        /\ HandlerCalls # <<>> =>
              /\ "ask_for_parameter" \in Range(calls)
              /\ Strip(reply) # <<>>
              /\ HandlerCalls = <<"research_topic">>
              /\ task_inputs.topic = Strip(reply)
        /\ ( /\ "ask_for_parameter" \in Range(calls)
             /\ Strip(reply) = <<>> ) => HandlerCalls = <<>>

=============================================================================
